---------------------------- MODULE Spec2Model ----------------------------
(***************************************************************************)
(* medi-trace: the medicine record canister of src/src/index.ts.           *)
(*                                                                         *)
(* The canister keeps one StableBTreeMap from record id to Medicine record *)
(* and answers query and update calls, one call at a time.  The model has  *)
(* one action per exported function; each action applies an operator that  *)
(* is the function's body (result and store after the call), and records   *)
(* the call and its result in `response`.                                  *)
(*                                                                         *)
(* Text that the code only tests for emptiness or equality is a TLA+       *)
(* string.  Text that the code orders with < (expiry_date and the ISO form *)
(* of the clock) is a sequence of UTF-16 code units, ordered as JavaScript *)
(* orders strings.  Time is counted in days of January 2030, at midnight   *)
(* UTC.  A JavaScript number is counted in halves (2 stands for 1, 1 for   *)
(* 0.5), so that Number.isInteger has something to reject.                 *)
(*                                                                         *)
(* StableBTreeMap.insert returns the previous value as an Opt, never       *)
(* undefined, so the branches that test its result for undefined are never *)
(* taken.  The map's key and value size limits (44 and 512 bytes) are      *)
(* outside the model: every record is taken to fit.                        *)
(***************************************************************************)
EXTENDS Integers, Sequences, FiniteSets, TLC

VARIABLES store, clock, response, issued, assignCalled

vars == <<store, clock, response, issued, assignCalled>>

-----------------------------------------------------------------------------
(* Bounds of the model *)

MaxDay == 2

MaxTags == 2

MaxComments == 1

Days == 1..MaxDay

-----------------------------------------------------------------------------
(* Values *)

\* Principals as byte blobs: the management canister and the anonymous caller.
Principals == {<< >>, <<4>>}

\* Principal.toString(): the textual encoding of the blob.
PrincipalToText(p) ==
  IF p = << >> THEN "aaaaa-aa"
  ELSE IF p = <<4>> THEN "2vxsx-fae"
  ELSE "?"

\* The ids uuidv4() can return, in ascending key order.
Uuids ==
  <<"1b9d6bcd-bbfd-4b2d-9b5d-ab8dfbbd4bed",
    "6ec0bd7f-11c0-43da-975e-2a8ad9ebae0b",
    "9c5b94b1-35ad-49bb-b118-8e8fc24abf80">>

Ids == {Uuids[i] : i \in 1..Len(Uuids)}

\* uuidv4() over the Math.random() getRandomValues: any id, nothing remembered.
uuidv4 == Ids

None == << >>

Some(v) == <<v>>

Ok(v) == [ok |-> TRUE, value |-> v]

Err(msg) == [ok |-> FALSE, error |-> msg]

-----------------------------------------------------------------------------
(* Dates *)

\* A Date object: its time value, or Invalid Date (time value NaN)
DateOf(t) == <<t>>

InvalidDate == << >>

Digit(d) == 48 + d

\* "2030-01-0dT00:00:00.000Z"
IsoString(d) ==
  <<50, 48, 51, 48, 45, 48, 49, 45, 48, Digit(d), 84,
    48, 48, 58, 48, 48, 58, 48, 48, 46, 48, 48, 48, 90>>

\* "+002030-01-0dT00:00:00.000Z", the expanded-year form of the same instant
ExpandedString(d) == <<43, 48, 48>> \o IsoString(d)

\* "soon"
Soon == <<115, 111, 111, 110>>

\* new Date(s): the Date a date string denotes, Invalid Date when it denotes none
DateParse(s) ==
  IF \E d \in 0..9 : s = IsoString(d)
    THEN DateOf(CHOOSE d \in 0..9 : s = IsoString(d))
  ELSE IF \E d \in 0..9 : s = ExpandedString(d)
    THEN DateOf(CHOOSE d \in 0..9 : s = ExpandedString(d))
  ELSE InvalidDate

\* date.toISOString() of a valid Date
toISOString(date) == IsoString(date[1])

\* a <= b in place of a < b
DateLess_orEqual(a, b) == a # InvalidDate /\ b # InvalidDate /\ a[1] <= b[1]

\* a < b on two Date objects (their time values; NaN compares false)
DateLess(a, b) == a # InvalidDate /\ b # InvalidDate /\ a[1] < b[1]

\* a < b on two strings: code unit by code unit, a proper prefix is smaller
RECURSIVE StringLess(_, _)
StringLess(a, b) ==
  IF b = << >> THEN FALSE
  ELSE IF a = << >> THEN TRUE
  ELSE IF Head(a) # Head(b) THEN Head(a) < Head(b)
  ELSE StringLess(Tail(a), Tail(b))

-----------------------------------------------------------------------------
(* StableBTreeMap *)

MedicineStorage_get(st, id) == IF id \in DOMAIN st THEN Some(st[id]) ELSE None

MedicineStorage_insert(st, id, med) ==
  [k \in (DOMAIN st) \cup {id} |-> IF k = id THEN med ELSE st[k]]

MedicineStorage_remove(st, id) == [k \in (DOMAIN st) \ {id} |-> st[k]]

\* values(): the records in ascending key order
RECURSIVE ValuesFrom(_, _)
ValuesFrom(st, i) ==
  IF i > Len(Uuids) THEN << >>
  ELSE (IF Uuids[i] \in DOMAIN st THEN <<st[Uuids[i]]>> ELSE << >>) \o ValuesFrom(st, i + 1)

MedicineStorage_values(st) == ValuesFrom(st, 1)

-----------------------------------------------------------------------------
(* Handlers: the result of a call and the store after it *)

Reply(result, st) == [result |-> result, store |-> st]

\* The creator check answering yes to everyone
IsCreator_anyone(med, caller) == TRUE

\* creator.toString() === ic.caller().toString()
IsCreator(med, caller) == PrincipalToText(med.creator) = PrincipalToText(caller)

MissingInput(payload) ==
  \/ payload.title = ""
  \/ payload.description = ""
  \/ payload.assigned_to = ""
  \/ payload.expiry_date = << >>

ExpiryInPast(payload, now) == DateLess(DateParse(payload.expiry_date), DateOf(now))

\* NewMedicine that leaves the assignee out
NewMedicine_unassigned(caller, id, now, payload) ==
  [creator |-> caller,
   id |-> id,
   created_date |-> now,
   updated_at |-> None,
   tags |-> << >>,
   status |-> "In Progress",
   priority |-> "",
   comments |-> << >>,
   title |-> payload.title,
   description |-> payload.description,
   assigned_to |-> "",
   expiry_date |-> payload.expiry_date]

NewMedicine(caller, id, now, payload) ==
  [creator |-> caller,
   id |-> id,
   created_date |-> now,
   updated_at |-> None,
   tags |-> << >>,
   status |-> "In Progress",
   priority |-> "",
   comments |-> << >>,
   title |-> payload.title,
   description |-> payload.description,
   assigned_to |-> payload.assigned_to,
   expiry_date |-> payload.expiry_date]

addMedicine(st, caller, now, id, payload) ==
  IF MissingInput(payload) THEN Reply(Err("Missing or invalid input data"), st)
  ELSE IF ExpiryInPast(payload, now) THEN Reply(Err("Expiry date cannot be in the past"), st)
  ELSE LET newMedicine == NewMedicine(caller, id, now, payload)
       IN  Reply(Ok(newMedicine), MedicineStorage_insert(st, newMedicine.id, newMedicine))

initialLoadSize == 4

initialLoad == 6

\* ToIntegerOrInfinity of a number counted in halves
ToInteger(h) == IF h >= 0 THEN h \div 2 ELSE -((-h) \div 2)

Number_isInteger(h) == h % 2 = 0

Min(a, b) == IF a < b THEN a ELSE b

Max(a, b) == IF a > b THEN a ELSE b

\* Array.prototype.slice: a negative index counts from the end, both are clamped
RelativeIndex(h, len) ==
  IF ToInteger(h) < 0 THEN Max(len + ToInteger(h), 0) ELSE Min(ToInteger(h), len)

slice(arr, start, end) ==
  LET k == RelativeIndex(start, Len(arr))
      final == RelativeIndex(end, Len(arr))
  IN  IF final <= k THEN << >> ELSE SubSeq(arr, k + 1, final)

getInitialMedicines_first(st) ==
  LET initialMedicines == slice(MedicineStorage_values(st), 0, 2 * initialLoadSize)
  IN  IF Len(initialMedicines) = 0
        THEN Err("No initial medicines found")
        ELSE Ok(initialMedicines)

getInitialMedicines_second(st) ==
  Ok(slice(MedicineStorage_values(st), 0, 2 * initialLoad))

InvalidParameters(offset, limit) ==
  offset < 0 \/ limit < 0 \/ ~Number_isInteger(offset) \/ ~Number_isInteger(limit)

loadMoreMedicines_first(st, offset, limit) ==
  LET allMedicines == MedicineStorage_values(st)
      totalMedicines == 2 * Len(allMedicines)
  IN  IF InvalidParameters(offset, limit) THEN Err("Invalid input parameters")
      ELSE IF Len(allMedicines) = 0 THEN Err("No more medicines to load")
      ELSE IF offset >= totalMedicines THEN Err("Invalid offset")
      ELSE IF offset + limit > totalMedicines THEN Err("Invalid offset and limit")
      ELSE Ok(slice(allMedicines, offset, offset + limit))

loadMoreMedicines_second(st, offset, limit) ==
  Ok(slice(MedicineStorage_values(st), offset, offset + limit))

\* index.ts declares getInitialMedicines and loadMoreMedicines twice, at lines
\* 32 and 46 and again, without the checks, at lines 377 and 382; which
\* declaration a call reaches is not settled by the file.
Definitions == {"first", "second"}

getInitialMedicines(def, st) ==
  IF def = "first" THEN getInitialMedicines_first(st) ELSE getInitialMedicines_second(st)

loadMoreMedicines(def, st, offset, limit) ==
  IF def = "first"
    THEN loadMoreMedicines_first(st, offset, limit)
    ELSE loadMoreMedicines_second(st, offset, limit)

getMedicine(st, caller, id) ==
  IF id = "" THEN Err("Invalid id parameter")
  ELSE IF MedicineStorage_get(st, id) = None THEN Err("Medicine not found")
  ELSE LET medicine == MedicineStorage_get(st, id)[1]
       IN  IF ~IsCreator(medicine, caller)
             THEN Err("You are not authorized to access Medicine")
             ELSE Ok(medicine)

\* includes that looks at the first element only
includes_first(seq, x) == Len(seq) > 0 /\ seq[1] = x

\* Array.prototype.includes
includes(seq, x) == \E i \in 1..Len(seq) : seq[i] = x

getMedicineByTags(st, tag) ==
  Ok(SelectSeq(MedicineStorage_values(st), LAMBDA Medicine : includes(Medicine.tags, tag)))

\* The assignee check skipped
NotAssigned_never(Medicine) == FALSE

\* !Medicine.assigned_to
NotAssigned(Medicine) == Medicine.assigned_to = ""

completedMedicine(st, id) ==
  IF MedicineStorage_get(st, id) = None THEN Reply(Err("Medicine not found"), st)
  ELSE LET Medicine == MedicineStorage_get(st, id)[1]
       IN  IF NotAssigned(Medicine)
             THEN Reply(Err("No one was assigned the Medicine"), st)
             ELSE LET completeMedicine == [Medicine EXCEPT !.status = "Completed"]
                  IN  Reply(Ok(completeMedicine),
                            MedicineStorage_insert(st, Medicine.id, completeMedicine))

addTags(st, caller, now, id, tags) ==
  IF Len(tags) = 0 THEN Reply(Err("Invalid tags"), st)
  ELSE IF MedicineStorage_get(st, id) = None THEN Reply(Err("Medicine not found"), st)
  ELSE LET Medicine == MedicineStorage_get(st, id)[1]
       IN  IF ~IsCreator(Medicine, caller)
             THEN Reply(Err("You are not authorized to access Medicine"), st)
             ELSE LET updatedMedicine ==
                        [Medicine EXCEPT !.tags = Medicine.tags \o tags, !.updated_at = Some(now)]
                  IN  Reply(Ok(updatedMedicine),
                            MedicineStorage_insert(st, Medicine.id, updatedMedicine))

updateMedicine(st, caller, now, id, payload) ==
  IF MedicineStorage_get(st, id) = None THEN Reply(Err("Medicine not found"), st)
  ELSE LET Medicine == MedicineStorage_get(st, id)[1]
       IN  IF ~IsCreator(Medicine, caller)
             THEN Reply(Err("You are not authorized to access Medicine"), st)
             ELSE LET updatedMedicine ==
                        [Medicine EXCEPT !.title = payload.title,
                                         !.description = payload.description,
                                         !.assigned_to = payload.assigned_to,
                                         !.expiry_date = payload.expiry_date,
                                         !.updated_at = Some(now)]
                  IN  Reply(Ok(updatedMedicine),
                            MedicineStorage_insert(st, Medicine.id, updatedMedicine))

deleteMedicine(st, caller, id) ==
  IF MedicineStorage_get(st, id) = None
    THEN Reply(Err("Medicine not found, could not be deleted"), st)
  ELSE LET Medicine == MedicineStorage_get(st, id)[1]
       IN  IF ~IsCreator(Medicine, caller)
             THEN Reply(Err("You are not authorized to access Medicine"), st)
             ELSE Reply(Ok(Medicine), MedicineStorage_remove(st, id))

\* assignMedicine without its creator check
assignMedicine_unchecked(st, caller, id, assignedTo) ==
  IF MedicineStorage_get(st, id) = None THEN Reply(Err("Medicine not found"), st)
  ELSE LET Medicine == MedicineStorage_get(st, id)[1]
           updatedMedicine == [Medicine EXCEPT !.assigned_to = assignedTo]
       IN  Reply(Ok(updatedMedicine), MedicineStorage_insert(st, Medicine.id, updatedMedicine))

assignMedicine(st, caller, id, assignedTo) ==
  IF MedicineStorage_get(st, id) = None THEN Reply(Err("Medicine not found"), st)
  ELSE LET Medicine == MedicineStorage_get(st, id)[1]
       IN  IF ~IsCreator(Medicine, caller)
             THEN Reply(Err("You are not authorized to assign a Medicine"), st)
             ELSE LET updatedMedicine == [Medicine EXCEPT !.assigned_to = assignedTo]
                  IN  Reply(Ok(updatedMedicine),
                            MedicineStorage_insert(st, Medicine.id, updatedMedicine))

\* changeMedicineStatus that also stamps updated_at
changeMedicineStatus_stamping(st, caller, id, newStatus) ==
  IF MedicineStorage_get(st, id) = None THEN Reply(Err("Medicine not found"), st)
  ELSE LET Medicine == MedicineStorage_get(st, id)[1]
       IN  IF ~IsCreator(Medicine, caller)
             THEN Reply(Err("You are not authorized to change the Medicine status"), st)
             ELSE LET updatedMedicine ==
                        [Medicine EXCEPT !.status = newStatus,
                                         !.updated_at = Some(Medicine.created_date)]
                  IN  Reply(Ok(updatedMedicine),
                            MedicineStorage_insert(st, Medicine.id, updatedMedicine))

changeMedicineStatus(st, caller, id, newStatus) ==
  IF MedicineStorage_get(st, id) = None THEN Reply(Err("Medicine not found"), st)
  ELSE LET Medicine == MedicineStorage_get(st, id)[1]
       IN  IF ~IsCreator(Medicine, caller)
             THEN Reply(Err("You are not authorized to change the Medicine status"), st)
             ELSE LET updatedMedicine == [Medicine EXCEPT !.status = newStatus]
                  IN  Reply(Ok(updatedMedicine),
                            MedicineStorage_insert(st, Medicine.id, updatedMedicine))

setMedicinePriority(st, caller, id, priority) ==
  IF MedicineStorage_get(st, id) = None THEN Reply(Err("Medicine not found"), st)
  ELSE LET Medicine == MedicineStorage_get(st, id)[1]
       IN  IF ~IsCreator(Medicine, caller)
             THEN Reply(Err("You are not authorized to set Medicine priority"), st)
             ELSE LET updatedMedicine == [Medicine EXCEPT !.priority = priority]
                  IN  Reply(Ok(updatedMedicine),
                            MedicineStorage_insert(st, Medicine.id, updatedMedicine))

\* Medicine.expiry_date < now && Medicine.status !== 'Completed', now an ISO string
IsOverdue(Medicine, now) ==
  StringLess(Medicine.expiry_date, toISOString(DateOf(now))) /\ Medicine.status # "Completed"

sendDueDateReminder(st, now, id) ==
  IF MedicineStorage_get(st, id) = None THEN Err("Medicine not found")
  ELSE LET Medicine == MedicineStorage_get(st, id)[1]
       IN  IF IsOverdue(Medicine, now)
             THEN Ok("Medicine is overdue. Please complete it.")
             ELSE Err("Medicine is not overdue or already completed.")

getOverdueMedicines(st, now) ==
  Ok(SelectSeq(MedicineStorage_values(st), LAMBDA Medicine : IsOverdue(Medicine, now)))

\* A comment argument: null, or a string
Null == << >>

Str(s) == <<s>>

addMedicineComment(st, id, comment) ==
  IF id = "" \/ comment = Null THEN Reply(Err("invalid id or comment"), st)
  ELSE IF MedicineStorage_get(st, id) = None THEN Reply(Err("Medicine not found"), st)
  ELSE LET Medicine == MedicineStorage_get(st, id)[1]
           updatedComments == Append(Medicine.comments, comment[1])
           updatedMedicine == [Medicine EXCEPT !.comments = updatedComments]
       IN  Reply(Ok(updatedMedicine), MedicineStorage_insert(st, Medicine.id, updatedMedicine))

-----------------------------------------------------------------------------
(* Inputs *)

Titles == {"", "Aspirin"}

Descriptions == {"", "Pain relief"}

Assignees == {"", "nurse"}

ExpiryDates ==
  {<< >>, Soon} \cup {IsoString(d) : d \in Days} \cup {ExpandedString(d) : d \in Days}

Payloads ==
  [title : Titles, description : Descriptions, assigned_to : Assignees, expiry_date : ExpiryDates]

Payload(expiry) ==
  [title |-> "Aspirin", description |-> "Pain relief", assigned_to |-> "nurse",
   expiry_date |-> expiry]

IdInputs == Ids \cup {""}

Tags == {"urgent", "oral"}

TagLists == {<< >>, <<"urgent">>, <<"oral">>, <<"urgent", "oral">>, <<"oral", "oral">>}

Statuses == {"In Progress", "Completed", "On Hold"}

Priorities == {"", "high"}

Comments == {Null, Str("checked")}

\* offset and limit, in halves: -1, 0, 0.5, 1, 2, 3
Numbers == {-2, 0, 1, 2, 4, 6}

-----------------------------------------------------------------------------
(* The machine *)

Outcome(result) == IF result.ok THEN "Ok" ELSE result.error

Call(op, id, result) == [op |-> op, id |-> id, outcome |-> Outcome(result)]

Init ==
  /\ store = << >>
  /\ clock = 1
  /\ response = [op |-> "init", id |-> "", outcome |-> "Ok"]
  /\ issued = {}
  /\ assignCalled = {}

\* A query, or an update call that changes nothing but the response
Answer(op, id, result) ==
  /\ response' = Call(op, id, result)
  /\ UNCHANGED <<store, clock, issued, assignCalled>>

\* An update call on record id
Update(op, id, r) ==
  /\ store' = r.store
  /\ response' = Call(op, id, r.result)
  /\ UNCHANGED <<clock, issued>>

Tick ==
  /\ clock < MaxDay
  /\ clock' = clock + 1
  /\ response' = [op |-> "tick", id |-> "", outcome |-> "Ok"]
  /\ UNCHANGED <<store, issued, assignCalled>>

GetInitialMedicines ==
  \E def \in Definitions :
    Answer("getInitialMedicines", "", getInitialMedicines(def, store))

LoadMoreMedicines(numbers) ==
  \E def \in Definitions, offset \in numbers, limit \in numbers :
    Answer("loadMoreMedicines", "", loadMoreMedicines(def, store, offset, limit))

GetMedicine(callers, ids) ==
  \E caller \in callers, id \in ids :
    Answer("getMedicine", id, getMedicine(store, caller, id))

GetMedicineByTags(tags) ==
  \E tag \in tags : Answer("getMedicineByTags", "", getMedicineByTags(store, tag))

CompletedMedicine(ids) ==
  \E id \in ids :
    /\ Update("completedMedicine", id, completedMedicine(store, id))
    /\ UNCHANGED assignCalled

AddMedicine(callers, payloads, ids) ==
  \E caller \in callers, payload \in payloads, id \in ids :
    LET r == addMedicine(store, caller, clock, id, payload)
    IN  /\ store' = r.store
        /\ response' = Call("addMedicine", IF r.result.ok THEN r.result.value.id ELSE "", r.result)
        /\ issued' = IF r.result.ok THEN issued \cup {r.result.value.id} ELSE issued
        /\ assignCalled' = IF r.result.ok THEN assignCalled \ {r.result.value.id} ELSE assignCalled
        /\ UNCHANGED clock

AddTags(callers, ids, tagLists) ==
  \E caller \in callers, id \in ids, tags \in tagLists :
    /\ id \in DOMAIN store => Len(store[id].tags) + Len(tags) <= MaxTags
    /\ Update("addTags", id, addTags(store, caller, clock, id, tags))
    /\ UNCHANGED assignCalled

UpdateMedicine(callers, ids, payloads) ==
  \E caller \in callers, id \in ids, payload \in payloads :
    /\ Update("updateMedicine", id, updateMedicine(store, caller, clock, id, payload))
    /\ UNCHANGED assignCalled

DeleteMedicine(callers, ids) ==
  \E caller \in callers, id \in ids :
    LET r == deleteMedicine(store, caller, id)
    IN  /\ Update("deleteMedicine", id, r)
        /\ assignCalled' = assignCalled \cap DOMAIN r.store

AssignMedicine(callers, ids, assignees) ==
  \E caller \in callers, id \in ids, assignedTo \in assignees :
    /\ Update("assignMedicine", id, assignMedicine(store, caller, id, assignedTo))
    /\ assignCalled' = assignCalled \cup ({id} \cap DOMAIN store)

ChangeMedicineStatus(callers, ids, statuses) ==
  \E caller \in callers, id \in ids, newStatus \in statuses :
    /\ Update("changeMedicineStatus", id, changeMedicineStatus(store, caller, id, newStatus))
    /\ UNCHANGED assignCalled

SetMedicinePriority(callers, ids, priorities) ==
  \E caller \in callers, id \in ids, priority \in priorities :
    /\ Update("setMedicinePriority", id, setMedicinePriority(store, caller, id, priority))
    /\ UNCHANGED assignCalled

SendDueDateReminder(ids) ==
  \E id \in ids : Answer("sendDueDateReminder", id, sendDueDateReminder(store, clock, id))

GetOverdueMedicines ==
  Answer("getOverdueMedicines", "", getOverdueMedicines(store, clock))

AddMedicineComment(ids, comments) ==
  \E id \in ids, comment \in comments :
    /\ id \in DOMAIN store => Len(store[id].comments) < MaxComments
    /\ Update("addMedicineComment", id, addMedicineComment(store, id, comment))
    /\ UNCHANGED assignCalled

\* One record id, every exported function of the first definitions' file.
OneId == {Uuids[1]}

IdArgs == {Uuids[1], Uuids[2], ""}

Next ==
  \/ Tick
  \/ GetInitialMedicines
  \/ LoadMoreMedicines({0, 2})
  \/ GetMedicine(Principals, IdArgs)
  \/ GetMedicineByTags({"urgent"})
  \/ CompletedMedicine(IdArgs)
  \/ AddMedicine(Principals, {Payload(IsoString(1)), Payload(<< >>)}, OneId)
  \/ AddTags(Principals, IdArgs, {<< >>, <<"urgent", "oral">>})
  \/ UpdateMedicine(Principals, IdArgs, {Payload(Soon)})
  \/ DeleteMedicine(Principals, IdArgs)
  \/ AssignMedicine(Principals, IdArgs, {"", "nurse"})
  \/ ChangeMedicineStatus(Principals, IdArgs, {"In Progress"})
  \/ SetMedicinePriority(Principals, IdArgs, {"high"})
  \/ SendDueDateReminder(IdArgs)
  \/ GetOverdueMedicines
  \/ AddMedicineComment(IdArgs, Comments)

Spec == Init /\ [][Next]_vars

\* The store: creation, deletion, lookup and paging over every id.
NextStore ==
  \/ AddMedicine(Principals, {Payload(IsoString(MaxDay))}, uuidv4)
  \/ DeleteMedicine(Principals, Ids)
  \/ GetMedicine(Principals, IdInputs)
  \/ LoadMoreMedicines(Numbers)
  \/ GetInitialMedicines

SpecStore == Init /\ [][NextStore]_vars

\* Tags: two records and every tag list.
TwoIds == {Uuids[1], Uuids[2]}

NextTags ==
  \/ AddMedicine(Principals, {Payload(IsoString(MaxDay))}, TwoIds)
  \/ AddTags(Principals, TwoIds, TagLists)
  \/ GetMedicineByTags(Tags \cup {"nonexistent"})

SpecTags == Init /\ [][NextTags]_vars

\* Expiry: two records, every date form, the clock and the status.
Creator == {<<4>>}

NextOverdue ==
  \/ Tick
  \/ AddMedicine(Creator, {Payload(e) : e \in ExpiryDates}, TwoIds)
  \/ UpdateMedicine(Creator, TwoIds, {Payload(<< >>)})
  \/ CompletedMedicine(TwoIds)
  \/ ChangeMedicineStatus(Creator, TwoIds, {"Completed", "In Progress"})
  \/ SendDueDateReminder(TwoIds)
  \/ GetOverdueMedicines

SpecOverdue == Init /\ [][NextOverdue]_vars

-----------------------------------------------------------------------------
(* Claims *)

Range(seq) == {seq[i] : i \in 1..Len(seq)}

\* A call that is refused: an error, and the store as it was
Refused(r) == ~r.result.ok /\ r.store = store

NonCreators(id) == {caller \in Principals : caller # store[id].creator}

CreatorChecked(id, caller) ==
  /\ \A tags \in TagLists : Refused(addTags(store, caller, clock, id, tags))
  /\ \A payload \in Payloads : Refused(updateMedicine(store, caller, clock, id, payload))
  /\ Refused(deleteMedicine(store, caller, id))
  /\ \A assignedTo \in Assignees : Refused(assignMedicine(store, caller, id, assignedTo))
  /\ \A newStatus \in Statuses : Refused(changeMedicineStatus(store, caller, id, newStatus))
  /\ \A priority \in Priorities : Refused(setMedicinePriority(store, caller, id, priority))

NotAuthorized ==
  {"You are not authorized to access Medicine",
   "You are not authorized to assign a Medicine",
   "You are not authorized to change the Medicine status",
   "You are not authorized to set Medicine priority"}

Size(st) == Cardinality(DOMAIN st)

NotFound == Err("Medicine not found")

\* The step just taken was a successful call of op
Succeeded(op) == response'.op = op /\ response'.outcome = "Ok"

\* C2 as stated: a successful addMedicine returns an id that was no key of
\* the store before the call, is a key after it, and was returned by no earlier
\* successful addMedicine (deleted records included); the store grows by one.
C2_FreshId ==
  [][Succeeded("addMedicine") =>
       /\ response'.id \notin DOMAIN store
       /\ response'.id \in DOMAIN store'
       /\ response'.id \notin issued
       /\ Size(store') = Size(store) + 1]_vars

\* Ids that were returned by addMedicine and whose record has been deleted
Deleted == issued \ DOMAIN store

\* C3 as stated: a successful deleteMedicine(id) removes exactly that entry,
\* leaves every other entry as it was and returns the record as it was stored;
\* from then on getMedicine(id) returns the not-found error to every caller.
C3_DeletedForGood ==
  [][/\ Succeeded("deleteMedicine") =>
          /\ response'.id \in DOMAIN store
          /\ Size(store') = Size(store) - 1
          /\ store' = MedicineStorage_remove(store, response'.id)
          /\ \E caller \in Principals :
               deleteMedicine(store, caller, response'.id).result = Ok(store[response'.id])
     /\ \A id \in Deleted : \A caller \in Principals :
          getMedicine(store', caller, id) = NotFound]_vars

\* The records at positions [offset, offset + limit) of the ordered value list
Page(offset, limit) ==
  [i \in 1..limit |-> MedicineStorage_values(store)[offset + i]]

WholeNumbers == {n \in Numbers : Number_isInteger(n)}

\* What C4 says of one definition, for whole offset and limit (counted in
\* halves, as is total)
PagingAsStated(def) ==
  \A offset \in WholeNumbers, limit \in WholeNumbers :
    LET total == 2 * Len(MedicineStorage_values(store))
        r == loadMoreMedicines(def, store, offset, limit)
    IN  IF offset < 0 \/ limit < 0 \/ total = 0 \/ offset >= total \/ offset + limit > total
          THEN ~r.ok
          ELSE r.ok /\ 2 * Len(r.value) = limit /\ r.value = Page(offset \div 2, limit \div 2)

\* C4 as stated: loadMoreMedicines returns an error when offset < 0, limit < 0,
\* total = 0, offset >= total or offset + limit > total, and otherwise Ok with
\* exactly limit records, those at [offset, offset + limit) of the value list.
C4_Paging == \A def \in Definitions : PagingAsStated(def)

\* The first definition alone pages as C4 says.
LoadMoreFirstDefinition == PagingAsStated("first")

\* C5: when addMedicine(payload) succeeds for a caller and returns record r,
\* getMedicine(r.id) by that caller on the resulting store returns Ok(r); r has
\* the payload's title, description, assigned_to and expiry_date, the caller as
\* creator, status "In Progress", no tags, no comments, priority "" and no
\* updated_at.
C5_RoundTrip ==
  \A caller \in Principals, payload \in Payloads, id \in uuidv4 :
    LET add == addMedicine(store, caller, clock, id, payload)
        r == add.result.value
        got == getMedicine(add.store, caller, r.id)
    IN  add.result.ok =>
          /\ got.ok
          /\ got.value = r
          /\ got.value.title = payload.title
          /\ got.value.description = payload.description
          /\ got.value.assigned_to = payload.assigned_to
          /\ got.value.expiry_date = payload.expiry_date
          /\ got.value.creator = caller
          /\ got.value.status = "In Progress"
          /\ got.value.tags = << >>
          /\ got.value.comments = << >>
          /\ got.value.priority = ""
          /\ got.value.updated_at = None

\* C5 witness: addMedicine has just succeeded and its record is in the store,
\* readable by its creator.
C5_Witness ==
  /\ response.op = "addMedicine"
  /\ response.outcome = "Ok"
  /\ response.id \in DOMAIN store
  /\ getMedicine(store, store[response.id].creator, response.id).ok
  /\ store[response.id].title = "Aspirin"

\* The instant an expiry_date names lies before the current time
EarlierThanNow(expiry) ==
  \E d \in 0..9 : d < clock /\ expiry \in {IsoString(d), ExpandedString(d)}

Complete(payload) ==
  /\ payload.title # ""
  /\ payload.description # ""
  /\ payload.assigned_to # ""
  /\ payload.expiry_date # << >>

NoOneAssigned == Err("No one was assigned the Medicine")

\* completedMedicine(id) succeeds exactly when the stored assigned_to is not
\* empty, and then stores the record with status "Completed"; otherwise it
\* returns the no-one-was-assigned error and changes nothing.
CompletesWhenAssigned(st, id) ==
  LET r == completedMedicine(st, id)
  IN  IF st[id].assigned_to # ""
        THEN /\ r.result.ok
             /\ r.store = [st EXCEPT ![id].status = "Completed"]
             /\ r.result.value = r.store[id]
        ELSE r.result = NoOneAssigned /\ r.store = st

\* After a successful assignMedicine(id, a) with a not empty, completedMedicine(id)
\* succeeds and the stored status is "Completed".
CompletesAfterAssign(id) ==
  \A caller \in Principals, a \in Assignees \ {""} :
    LET assign == assignMedicine(store, caller, id, a)
        r == completedMedicine(assign.store, id)
    IN  assign.result.ok => r.result.ok /\ r.store[id].status = "Completed"

NoRepeats(seq) == \A i, j \in 1..Len(seq) : seq[i] = seq[j] => i = j

TagArgs == Tags \cup {"nonexistent"}

Tagged(st, tag) == {st[id] : id \in {k \in DOMAIN st : tag \in Range(st[k].tags)}}

\* C8: getMedicineByTags(tag) returns Ok with exactly the stored records whose
\* tags have an element equal to tag (none: the empty list); after a successful
\* addTags(id, tags) by the creator the record's tags are the previous tags
\* followed by tags, duplicates kept, and getMedicineByTags(t) holds the record
\* for every t in tags.
C8_TagsAppendAndFilter ==
  /\ \A tag \in TagArgs :
       LET found == getMedicineByTags(store, tag)
       IN  /\ found.ok
           /\ Range(found.value) = Tagged(store, tag)
           /\ NoRepeats(found.value)
  /\ \A id \in DOMAIN store, tags \in TagLists :
       LET r == addTags(store, store[id].creator, clock, id, tags)
       IN  /\ r.result.ok <=> tags # << >>
           /\ r.result.ok =>
                /\ r.store[id].tags = store[id].tags \o tags
                /\ r.result.value = r.store[id]
                /\ \A t \in Range(tags) :
                     r.store[id] \in Range(getMedicineByTags(r.store, t).value)

\* C8 witness: addTags has just appended to a record that now holds the same
\* tag twice, next to a record that holds no tag.
C8_Witness ==
  /\ response.op = "addTags"
  /\ response.outcome = "Ok"
  /\ response.id \in DOMAIN store
  /\ store[response.id].tags = <<"oral", "oral">>
  /\ \E id \in DOMAIN store : store[id].tags = << >>

\* The records whose expiry_date is earlier than the current time and whose
\* status is not "Completed"
Overdue ==
  {id \in DOMAIN store :
     EarlierThanNow(store[id].expiry_date) /\ store[id].status # "Completed"}

\* C9 as stated: getOverdueMedicines returns exactly the stored records whose
\* expiry_date is earlier than the current time and whose status is not
\* "Completed", and sendDueDateReminder(id) returns Ok exactly for their ids.
C9_OverdueByTime ==
  /\ getOverdueMedicines(store, clock).ok
  /\ Range(getOverdueMedicines(store, clock).value) = {store[id] : id \in Overdue}
  /\ \A id \in Ids : sendDueDateReminder(store, clock, id).ok <=> id \in Overdue

\* C10: getMedicine(id) returns Ok, with the stored record, exactly when id is
\* not empty, is a key of the store and the caller is the record's creator;
\* otherwise it returns an error; a getMedicine call leaves the store as it was.
C10_GetMedicine ==
  /\ [](\A caller \in Principals, id \in IdInputs :
          LET got == getMedicine(store, caller, id)
          IN  IF id # "" /\ id \in DOMAIN store /\ caller = store[id].creator
                THEN got = Ok(store[id])
                ELSE ~got.ok)
  /\ [][response'.op = "getMedicine" => store' = store]_vars

\* C10 witness: getMedicine has just refused a caller who is not the creator
\* of a stored record.
C10_Witness ==
  /\ response.op = "getMedicine"
  /\ response.outcome = "You are not authorized to access Medicine"
  /\ response.id \in DOMAIN store

\* Every entry but the one under id is the same in st as in the store
OthersKept(st, id) ==
  /\ DOMAIN st \ {id} = DOMAIN store \ {id}
  /\ \A k \in DOMAIN store \ {id} : st[k] = store[k]

Added(st, id) == id \notin DOMAIN store /\ id \in DOMAIN st /\ OthersKept(st, id)

Removed(st, id) == id \in DOMAIN store /\ id \notin DOMAIN st /\ OthersKept(st, id)

Overwritten(st, id) == id \in DOMAIN store /\ id \in DOMAIN st /\ OthersKept(st, id)

\* The calls of the mutators that overwrite the record under id
Overwrites(id) ==
  {addTags(store, caller, clock, id, tags) : caller \in Principals, tags \in TagLists}
    \cup {updateMedicine(store, caller, clock, id, payload) :
            caller \in Principals, payload \in Payloads}
    \cup {assignMedicine(store, caller, id, a) : caller \in Principals, a \in Assignees}
    \cup {changeMedicineStatus(store, caller, id, s) : caller \in Principals, s \in Statuses}
    \cup {setMedicinePriority(store, caller, id, p) : caller \in Principals, p \in Priorities}
    \cup {addMedicineComment(store, id, comment) : comment \in Comments}
    \cup {completedMedicine(store, id)}

\* A failed call keeps the whole store; a successful deleteMedicine removes
\* the entry under id, a successful other mutator overwrites it, and no other
\* entry changes.
MutatorsAllOrNothing ==
  \A id \in IdInputs :
    /\ \A r \in Overwrites(id) :
         IF r.result.ok THEN Overwritten(r.store, id) ELSE r.store = store
    /\ \A caller \in Principals :
         LET r == deleteMedicine(store, caller, id)
         IN  IF r.result.ok THEN Removed(r.store, id) ELSE r.store = store

\* A step that returns an error keeps the whole store
ErrorKeepsStore == response'.outcome # "Ok" => store' = store

\* C11 as stated: an operation that returns an error leaves the whole store as
\* it was; a successful addMedicine adds exactly one entry, a successful
\* deleteMedicine removes exactly one, a successful other mutator overwrites
\* exactly one, and every other entry is unchanged.
C11_AllOrNothing ==
  /\ [](/\ MutatorsAllOrNothing
        /\ \A caller \in Principals, payload \in Payloads, id \in uuidv4 :
             LET r == addMedicine(store, caller, clock, id, payload)
             IN  IF r.result.ok THEN Added(r.store, r.result.value.id) ELSE r.store = store)
  /\ [][ErrorKeepsStore]_vars

\* Apart from addMedicine writing over a stored record when its id is drawn
\* again, the operations are all-or-nothing: addMedicine changes the entry
\* under the new id only.
AllOrNothingButFreshness ==
  /\ [](/\ MutatorsAllOrNothing
        /\ \A caller \in Principals, payload \in Payloads, id \in uuidv4 :
             LET r == addMedicine(store, caller, clock, id, payload)
             IN  IF r.result.ok
                   THEN id \in DOMAIN r.store /\ OthersKept(r.store, r.result.value.id)
                   ELSE r.store = store)
  /\ [][ErrorKeepsStore]_vars

\* Every entry's key is the id field of its record
KeyIsId(st) == \A k \in DOMAIN st : st[k].id = k

SameIdentity(a, b) ==
  a.id = b.id /\ a.creator = b.creator /\ a.created_date = b.created_date

\* Every entry that is in the store before and after the step keeps the
\* id, creator and created_date of its record
IdentityKept == \A k \in DOMAIN store \cap DOMAIN store' : SameIdentity(store'[k], store[k])

\* C12 as stated: every entry's key is the id of its record, and for as long
\* as a record is in the store its id, creator and created_date stay the
\* values addMedicine gave them.
C12_IdentityKept ==
  /\ [](KeyIsId(store))
  /\ [][IdentityKept]_vars

\* The same of every step but a successful addMedicine, which stores under
\* the id it drew a record with that id, the caller as creator and the current
\* time as created_date; no call of the other mutators changes the three.
IdentityKeptByMutators ==
  /\ [](/\ KeyIsId(store)
        /\ \A id \in DOMAIN store : \A r \in Overwrites(id) :
             r.result.ok => SameIdentity(r.store[id], store[id])
        /\ \A caller \in Principals, payload \in Payloads, id \in uuidv4 :
             LET r == addMedicine(store, caller, clock, id, payload)
             IN  r.result.ok =>
                   /\ r.store[id] = r.result.value
                   /\ r.result.value.id = id
                   /\ r.result.value.creator = caller
                   /\ r.result.value.created_date = clock)
  /\ [][~Succeeded("addMedicine") => IdentityKept]_vars

\* A successful call stores its result under id, with updated_at the current time
Stamps(r, id) ==
  r.result.ok => r.store[id] = r.result.value /\ r.store[id].updated_at = Some(clock)

\* C13: a freshly created record has no updated_at; a successful addTags or
\* updateMedicine sets updated_at to the current time; a successful
\* assignMedicine, changeMedicineStatus, setMedicinePriority, addMedicineComment
\* or completedMedicine leaves updated_at as it was and changes nothing but
\* assigned_to, status, priority, comments and status respectively.
C13_UpdatedAt ==
  /\ \A caller \in Principals, payload \in Payloads, id \in uuidv4 :
       LET r == addMedicine(store, caller, clock, id, payload)
       IN  r.result.ok => r.store[id].updated_at = None
  /\ \A id \in DOMAIN store : \A caller \in Principals :
       /\ \A tags \in TagLists : Stamps(addTags(store, caller, clock, id, tags), id)
       /\ \A payload \in Payloads : Stamps(updateMedicine(store, caller, clock, id, payload), id)
       /\ \A a \in Assignees :
            LET r == assignMedicine(store, caller, id, a)
            IN  r.result.ok => r.store[id] = [store[id] EXCEPT !.assigned_to = a]
       /\ \A s \in Statuses :
            LET r == changeMedicineStatus(store, caller, id, s)
            IN  r.result.ok => r.store[id] = [store[id] EXCEPT !.status = s]
       /\ \A p \in Priorities :
            LET r == setMedicinePriority(store, caller, id, p)
            IN  r.result.ok => r.store[id] = [store[id] EXCEPT !.priority = p]
       /\ \A comment \in Comments :
            LET r == addMedicineComment(store, id, comment)
            IN  r.result.ok =>
                  r.store[id] = [store[id] EXCEPT !.comments = Append(@, comment[1])]
       /\ LET r == completedMedicine(store, id)
          IN  r.result.ok => r.store[id] = [store[id] EXCEPT !.status = "Completed"]

\* C13 witness: assignMedicine has just changed the assignee of a record that
\* was edited on a later day than it was created, and the stamp of that edit
\* is still in place.
C13_Witness ==
  /\ response.op = "assignMedicine"
  /\ response.outcome = "Ok"
  /\ response.id \in DOMAIN store
  /\ store[response.id].assigned_to = ""
  /\ store[response.id].updated_at = Some(clock)
  /\ store[response.id].created_date < clock

=============================================================================
